---- MODULE Spec2Model ----
(***************************************************************************)
(* Model of the directory pivot tool (one PyQt5 source file).              *)
(*                                                                         *)
(* AnalysisWorker.run walks the directories it was constructed with, reads *)
(* every *.xlsx and then every *.csv file of each directory, drops the     *)
(* "he ji" (grand total) columns and rows, sums the chosen column and      *)
(* emits one file result per file, then a summary.                         *)
(*                                                                         *)
(* Text is a sequence of one-character strings.  The two characters of the *)
(* grand-total marker are written He and Ji.  Numbers are integers.        *)
(*                                                                         *)
(* Four specifications share the module:                                   *)
(*   Spec        one run of AnalysisWorker over a small file system        *)
(*   SpecCard    _extract_monthly_card applied to generated file names     *)
(*   SpecFilter  _preprocess_df applied to generated tables                *)
(*   SpecLoad    the statements of the per-file try body, one at a time    *)
(***************************************************************************)
EXTENDS Integers, Sequences, FiniteSets, TLC

VARIABLES
    \* ---- AnalysisWorker and what it reads ----
    directories,        \* self.directories: sequence of directory paths
    fs,                 \* the file system: path -> [xlsx, csv], sequences of files
    amount_column,      \* self.amount_column
    custom_headers,     \* self.custom_headers: [none, names]
    is_running,         \* self.is_running
    pc,                 \* position of run()
    di,                 \* directories taken from the directory loop so far
    xi,                 \* files taken from the *.xlsx loop of the current directory
    ci,                 \* files taken from the *.csv loop of the current directory
    total_amount_all,   \* local of run()
    total_files_all,    \* local of run()
    log,                \* every signal emitted, in emission order
    visited,            \* files whose try body has run: <<directory, kind, position>>
    stopAt,             \* where run() was when stop() was called
    loop_directory,     \* directory, the loop variable of line 101
    \* ---- MainWindow ----
    all_results,        \* self.all_results
    window_headers,     \* MainWindow.custom_headers: [none, names]
    amount_combo,       \* the items of self.amount_combo
    analyze_btn,        \* self.analyze_btn.isEnabled()
    header_edit_btn,    \* self.header_edit_btn.isEnabled()
    drop_widget,        \* self.drop_widget.isEnabled()
    export_btn,         \* self.export_btn.isEnabled()
    handled,            \* signals of the worker whose slot has run
    started_with,       \* the directory list as it was at worker.start()
    overlap,            \* a worker was started while another was active
    exported,           \* what export_data last did since a worker was started
    probed,             \* the files the combo items and the override come from
    \* ---- _extract_monthly_card on its own ----
    c_filename, c_card, c_done,
    \* ---- _preprocess_df on its own ----
    f_df, f_once, f_twice, f_stage,
    \* ---- the per-file try body, statement by statement ----
    l_kind, l_file, l_headers, l_column, l_parsed, l_df, l_stage, l_result

workerVars == <<directories, fs, amount_column, custom_headers, is_running, pc, di,
                xi, ci, total_amount_all, total_files_all, log, visited, stopAt,
                loop_directory>>
windowVars == <<all_results, window_headers, amount_combo, analyze_btn,
                header_edit_btn, drop_widget, export_btn, handled, started_with,
                overlap, exported, probed>>
cardVars == <<c_filename, c_card, c_done>>
filterVars == <<f_df, f_once, f_twice, f_stage>>
loadVars == <<l_kind, l_file, l_headers, l_column, l_parsed, l_df, l_stage, l_result>>
vars == <<workerVars, windowVars, cardVars, filterVars, loadVars>>

(***************************************************************************)
(* Bounds of the model                                                     *)
(***************************************************************************)
MaxNameTokens == 3      \* a generated file name is at most this many tokens
MaxCols == 3            \* a generated table has at most this many columns
MaxCells == 4           \* ... and at most this many cells
MaxDirs == 3            \* a run is over at most this many directories

(***************************************************************************)
(* Text                                                                    *)
(***************************************************************************)
He == "HE"
Ji == "JI"
Sp == " "

\* the list ['he ji' with a blank, 'he ji'] of lines 82 and 460
Markers == {<<He, Sp, Ji>>, <<He, Ji>>}

DigitChars == <<"0", "1", "2", "3", "4", "5", "6", "7", "8", "9">>

IsDigit(c) == \E d \in 1..Len(DigitChars) : DigitChars[d] = c

DigitValue(c) == (CHOOSE d \in 1..Len(DigitChars) : DigitChars[d] = c) - 1

Min(S) == CHOOSE x \in S : \A y \in S : x <= y

\* str.strip(): leading and trailing blanks removed
Strip(s) ==
    LET solid == {i \in 1..Len(s) : s[i] # Sp}
    IN  IF solid = {} THEN <<>>
        ELSE SubSeq(s, Min(solid), CHOOSE x \in solid : \A y \in solid : y <= x)

\* m occurs in s as a substring
Contains(s, m) ==
    \E i \in 1..(Len(s) - Len(m) + 1) : SubSeq(s, i, i + Len(m) - 1) = m

\* str(n) of a non-negative integer
RECURSIVE NumStr(_)
NumStr(n) ==
    IF n < 10 THEN <<DigitChars[n + 1]>>
    ELSE NumStr(n \div 10) \o <<DigitChars[(n % 10) + 1]>>

\* the value of a text of decimal digits
RECURSIVE DecimalValue(_)
DecimalValue(s) ==
    IF s = <<>> THEN 0
    ELSE 10 * DecimalValue(SubSeq(s, 1, Len(s) - 1)) + DigitValue(s[Len(s)])

(***************************************************************************)
(* _extract_monthly_card (lines 70-77)                                     *)
(***************************************************************************)
CardDigits == 10

\* re.search(r'\d{10}', filename): the leftmost position where ten
\* consecutive digits start, if any
CardSearch(filename) ==
    {i \in 1..(Len(filename) - CardDigits + 1) :
        \A k \in 0..(CardDigits - 1) : IsDigit(filename[i + k])}

\* as if the pattern were anchored at the start of the name (re.match)
ExtractMonthlyCardAnchored(filename) ==
    IF 1 \in CardSearch(filename) THEN SubSeq(filename, 1, CardDigits) ELSE <<>>

ExtractMonthlyCard(filename) ==
    IF CardSearch(filename) # {}
    THEN SubSeq(filename, Min(CardSearch(filename)),
                Min(CardSearch(filename)) + CardDigits - 1)
    ELSE <<>>

(***************************************************************************)
(* Tables (pandas DataFrame)                                               *)
(*   columns  the column labels                                            *)
(*   dtypes   "object" or "number", one per column, fixed when parsed      *)
(*   index    the row labels (RangeIndex 0..n-1 when parsed)               *)
(*   data     the rows, each a sequence of cells, one per column           *)
(***************************************************************************)
Num(n) == [k |-> "num", n |-> n, s |-> <<>>]
Text(s) == [k |-> "text", n |-> 0, s |-> s]
NaN == [k |-> "nan", n |-> 0, s |-> <<>>]

\* the dtype pandas infers for a parsed column: object as soon as one cell
\* is text or when there is no row, numeric otherwise (missing cells are NaN
\* in a numeric column).  Text columns are taken to have the
\* object dtype that line 89 tests for.
InferDtype(cells) ==
    IF cells = <<>> \/ \E i \in 1..Len(cells) : cells[i].k = "text"
    THEN "object" ELSE "number"

\* the DataFrame a parser returns for a header row and data rows
ParsedFrame(columns, data) ==
    [columns |-> columns,
     dtypes  |-> [j \in 1..Len(columns) |->
                    InferDtype([r \in 1..Len(data) |-> data[r][j]])],
     index   |-> [r \in 1..Len(data) |-> r - 1],
     data    |-> data]

\* the positions of seq that satisfy keep, as an increasing sequence
RECURSIVE Positions(_, _, _)
Positions(n, keep, from) ==
    IF from > n THEN <<>>
    ELSE IF from \in keep THEN <<from>> \o Positions(n, keep, from + 1)
    ELSE Positions(n, keep, from + 1)

\* df.drop(columns=...): the columns at the positions in keep remain
TakeColumns(df, keep) ==
    LET p == Positions(Len(df.columns), keep, 1)
    IN  [columns |-> [j \in 1..Len(p) |-> df.columns[p[j]]],
         dtypes  |-> [j \in 1..Len(p) |-> df.dtypes[p[j]]],
         index   |-> df.index,
         data    |-> [r \in 1..Len(df.data) |->
                        [j \in 1..Len(p) |-> df.data[r][p[j]]]]]

\* df[~mask]: the rows at the positions in keep remain, labels kept
TakeRows(df, keep) ==
    LET p == Positions(Len(df.data), keep, 1)
    IN  [columns |-> df.columns,
         dtypes  |-> df.dtypes,
         index   |-> [r \in 1..Len(p) |-> df.index[p[r]]],
         data    |-> [r \in 1..Len(p) |-> df.data[p[r]]]]

\* astype(str) of one cell
AsStr(cell) ==
    IF cell.k = "text" THEN cell.s
    ELSE IF cell.k = "num" THEN NumStr(cell.n)
    ELSE <<"n", "a", "n">>

\* as if the pattern had to match the whole cell
EqualsMarker(s) == s \in Markers

\* str.contains('he ji|heji', regex=True) on one stringified cell
ContainsMarker(s) == Contains(s, <<He, Sp, Ji>>) \/ Contains(s, <<He, Ji>>)

\* a label that occurs twice: df[col] is then a DataFrame, which has no dtype
Duplicated(df, j) ==
    \E i \in 1..Len(df.columns) : i # j /\ df.columns[i] = df.columns[j]

(***************************************************************************)
(* _preprocess_df (lines 79-94)                                            *)
(* The result is [raised, df]: raised when the body raises (a duplicated   *)
(* label reaches df[col].dtype).                                           *)
(***************************************************************************)
\* as if only the first total column found were dropped
DropFirstTotalColumn(df) ==
    LET total == {j \in 1..Len(df.columns) : Strip(df.columns[j]) \in Markers}
    IN  TakeColumns(df, (1..Len(df.columns)) \ (IF total = {} THEN {} ELSE {Min(total)}))

\* as if the names were compared without strip()
DropTotalColumnsNoStrip(df) ==
    TakeColumns(df, {j \in 1..Len(df.columns) : df.columns[j] \notin Markers})

\* lines 82-84
DropTotalColumns(df) ==
    TakeColumns(df, {j \in 1..Len(df.columns) : Strip(df.columns[j]) \notin Markers})

\* lines 91-92 for the column at position j
DropTotalRows(df, j) ==
    TakeRows(df, {r \in 1..Len(df.data) : ~ContainsMarker(AsStr(df.data[r][j]))})

\* lines 88-92: the loop over df.columns, from position j on
RECURSIVE RowPass(_, _)
RowPass(df, j) ==
    IF j > Len(df.columns) THEN [raised |-> FALSE, df |-> df]
    ELSE IF Duplicated(df, j) THEN [raised |-> TRUE, df |-> df]
    ELSE IF df.dtypes[j] = "object" THEN RowPass(DropTotalRows(df, j), j + 1)
    ELSE RowPass(df, j + 1)

PreprocessDf(df) == RowPass(DropTotalColumns(df), 1)

(***************************************************************************)
(* The per-file try body of run (lines 111-136 and 142-171)                *)
(* A file is [name, readable, encoding, columns, data]: what a parser      *)
(* finds in it.  A read is [raised, df].                                   *)
(***************************************************************************)
\* pd.read_excel(excel_file, header=0), line 112
ReadExcel(file) ==
    IF file.readable
    THEN [raised |-> FALSE, df |-> ParsedFrame(file.columns, file.data)]
    ELSE [raised |-> TRUE, df |-> ParsedFrame(<<>>, <<>>)]

\* lines 144-147: utf-8 first, gbk on UnicodeDecodeError, no third attempt
ReadCsv(file) ==
    IF file.readable /\ file.encoding \in {"utf-8", "gbk"}
    THEN [raised |-> FALSE, df |-> ParsedFrame(file.columns, file.data)]
    ELSE [raised |-> TRUE, df |-> ParsedFrame(<<>>, <<>>)]

\* as if the override were applied whenever it is not longer than the header
SetHeadersNoLengthCheck(df, headers) ==
    IF ~headers.none /\ Len(headers.names) <= Len(df.columns)
    THEN [df EXCEPT !.columns =
            [j \in 1..Len(df.columns) |->
                IF j <= Len(headers.names) THEN headers.names[j] ELSE df.columns[j]]]
    ELSE df

\* lines 113-114 and 149-150
SetHeaders(df, headers) ==
    IF ~headers.none /\ Len(headers.names) = Len(df.columns)
    THEN [df EXCEPT !.columns = headers.names]
    ELSE df

\* self.amount_column in df.columns, lines 119 and 155
HasColumn(df, column) == \E j \in 1..Len(df.columns) : df.columns[j] = column

\* as if only cells that are numbers already were summed
ToNumericNumbersOnly(cell) == IF cell.k = "num" THEN cell ELSE NaN

\* pd.to_numeric(..., errors='coerce') of one cell: a number, or NaN
ToNumeric(cell) ==
    IF cell.k = "num" THEN cell
    ELSE IF cell.k = "text" /\ cell.s # <<>> /\ \A i \in 1..Len(cell.s) : IsDigit(cell.s[i])
    THEN Num(DecimalValue(cell.s))
    ELSE NaN

\* Series.sum() of the first r coerced cells of column j: NaN is skipped
RECURSIVE SumCells(_, _, _)
SumCells(df, j, r) ==
    IF r = 0 THEN 0
    ELSE SumCells(df, j, r - 1) +
         (IF ToNumeric(df.data[r][j]).k = "num" THEN ToNumeric(df.data[r][j]).n ELSE 0)

\* lines 121-122 and 156-157
SumColumn(df, column) ==
    SumCells(df, CHOOSE j \in 1..Len(df.columns) : df.columns[j] = column, Len(df.data))

\* the dict of lines 125-130 and 160-165
FileResult(directory, file, file_total) ==
    [directory |-> directory,
     filename |-> file.name,
     monthly_card |-> ExtractMonthlyCard(file.name),
     amount |-> file_total]

NothingEmitted == [emitted |-> FALSE,
                   result |-> [directory |-> 0, filename |-> <<>>,
                               monthly_card |-> <<>>, amount |-> 0],
                   file_total |-> 0]

\* line 121 and 156: the column replaced by its coerced cells
CoerceColumn(df, column) ==
    LET c == CHOOSE j \in 1..Len(df.columns) : df.columns[j] = column
    IN  [df EXCEPT !.dtypes[c] = "number",
                   !.data = [r \in 1..Len(df.data) |->
                               [df.data[r] EXCEPT ![c] = ToNumeric(df.data[r][c])]]]

\* as if a file without the column produced a result of zero
AggregateAlwaysEmits(df, directory, file, column) ==
    IF HasColumn(df, column)
    THEN [emitted |-> TRUE,
          result |-> FileResult(directory, file, SumColumn(CoerceColumn(df, column), column)),
          file_total |-> SumColumn(CoerceColumn(df, column), column)]
    ELSE [emitted |-> TRUE, result |-> FileResult(directory, file, 0), file_total |-> 0]

\* lines 119-134 and 155-169 on the filtered frame
Aggregate(df, directory, file, column) ==
    IF HasColumn(df, column)
    THEN [emitted |-> TRUE,
          result |-> FileResult(directory, file, SumColumn(CoerceColumn(df, column), column)),
          file_total |-> SumColumn(CoerceColumn(df, column), column)]
    ELSE NothingEmitted

\* as if the result of a file were emitted although its read or filter raised
TryBodyEmitsOnError(read, directory, file, headers, column) ==
    IF read.raised \/ PreprocessDf(SetHeaders(read.df, headers)).raised
    THEN [emitted |-> TRUE, result |-> FileResult(directory, file, 0), file_total |-> 0]
    ELSE Aggregate(PreprocessDf(SetHeaders(read.df, headers)).df, directory, file, column)

\* the statements of the try body after the read; an exception anywhere in
\* it is caught by the except clause of the same file (lines 135 and 170)
TryBody(read, directory, file, headers, column) ==
    IF read.raised THEN NothingEmitted
    ELSE IF PreprocessDf(SetHeaders(read.df, headers)).raised THEN NothingEmitted
    ELSE Aggregate(PreprocessDf(SetHeaders(read.df, headers)).df, directory, file, column)

\* as if the running total were assigned, not added to
AccumulateOverwrite(total, file_total) == file_total

\* total_amount_all += file_total, lines 133 and 168
Accumulate(total, file_total) == total + file_total

\* lines 111-136
ExcelTry(directory, file, headers, column) ==
    TryBody(ReadExcel(file), directory, file, headers, column)

\* lines 142-171
CsvTry(directory, file, headers, column) ==
    TryBody(ReadCsv(file), directory, file, headers, column)

(***************************************************************************)
(* The files of the model                                                  *)
(***************************************************************************)
ColN == <<"n">>
ColA == <<"a">>
ColB == <<"b">>

\* n, a; two data rows and a total row; ten digits in the name
FileA == [name |-> <<"s">> \o <<"2", "0", "2", "4", "0", "1", "0", "1", "1", "2">>,
          readable |-> TRUE, encoding |-> "utf-8",
          columns |-> <<ColN, ColA>>,
          data |-> << <<Text(<<"x">>), Num(2)>>,
                      <<Text(<<"y">>), Num(3)>>,
                      <<Text(<<He, Ji>>), Num(5)>> >>]

\* n, b: no column a unless the headers are overridden
FileB == [name |-> <<"b">>,
          readable |-> TRUE, encoding |-> "utf-8",
          columns |-> <<ColN, ColB>>,
          data |-> << <<Text(<<"x">>), Num(4)>> >>]

\* a file the parser fails on
FileC == [name |-> <<"c">>,
          readable |-> FALSE, encoding |-> "utf-8",
          columns |-> <<>>, data |-> <<>>]

\* n, a total column, a; column a holds text, one cell of it a number
FileD == [name |-> <<"1", "2", "3", "4", "5", "6", "7", "8", "9", "0", "1">>,
          readable |-> TRUE, encoding |-> "utf-8",
          columns |-> <<ColN, <<Sp, He, Sp, Ji>>, ColA>>,
          data |-> << <<Text(<<"x">>), Num(9), Text(<<"7">>)>>,
                      <<NaN, NaN, Text(<<"x">>)>> >>]

\* a single numeric column, gbk bytes
FileE == [name |-> <<"e">>,
          readable |-> TRUE, encoding |-> "gbk",
          columns |-> <<ColA>>,
          data |-> << <<Num(1)>>, <<NaN>> >>]

\* bytes that are neither utf-8 nor gbk
FileF == [name |-> <<"f">>,
          readable |-> TRUE, encoding |-> "other",
          columns |-> <<ColA>>,
          data |-> << <<Num(6)>> >>]

\* a header row n, a and no data row
FileG == [name |-> <<"g">>,
          readable |-> TRUE, encoding |-> "utf-8",
          columns |-> <<ColN, ColA>>,
          data |-> <<>>]

Files == {FileA, FileB, FileC, FileD, FileE, FileF, FileG}

(***************************************************************************)
(* Values the variables of the other specifications rest at                *)
(***************************************************************************)
NoHeaders == [none |-> TRUE, names |-> <<>>]

EmptyFrame == [columns |-> <<>>, dtypes |-> <<>>, index |-> <<>>, data |-> <<>>]

NoFile == [name |-> <<>>, readable |-> FALSE, encoding |-> "utf-8",
           columns |-> <<>>, data |-> <<>>]

NoResult == NothingEmitted.result

NoSummary == [total_files |-> 0, total_amount |-> 0]

NotStopped == [called |-> FALSE, pc |-> "", di |-> 0, xi |-> 0, ci |-> 0]

WorkerIdle ==
    /\ directories = <<>>
    /\ fs = <<>>
    /\ amount_column = <<>>
    /\ custom_headers = NoHeaders
    /\ is_running = TRUE
    /\ pc = "idle"
    /\ di = 0
    /\ xi = 0
    /\ ci = 0
    /\ total_amount_all = 0
    /\ total_files_all = 0
    /\ log = <<>>
    /\ visited = <<>>
    /\ stopAt = NotStopped
    /\ loop_directory = 0

\* no file has been probed: a probed file is the first of a listing
NoProbe == [found |-> FALSE, directory |-> 0, kind |-> ""]

\* no export_data has run
NotExported == [warned |-> FALSE, asked |-> FALSE, written |-> FALSE,
                columns |-> <<>>, data |-> <<>>]

\* MainWindow.__init__ and init_ui (lines 237-243, 327, 333, 351)
WindowIdle ==
    /\ all_results = <<>>
    /\ window_headers = NoHeaders
    /\ amount_combo = <<>>
    /\ analyze_btn = FALSE
    /\ header_edit_btn = FALSE
    /\ drop_widget = TRUE
    /\ export_btn = FALSE
    /\ handled = 0
    /\ started_with = <<>>
    /\ overlap = FALSE
    /\ exported = NotExported
    /\ probed = [combo |-> NoProbe, override |-> NoProbe]

CardIdle ==
    /\ c_filename = <<>>
    /\ c_card = <<>>
    /\ c_done = FALSE

FilterIdle ==
    /\ f_df = EmptyFrame
    /\ f_once = [raised |-> FALSE, df |-> EmptyFrame]
    /\ f_twice = [raised |-> FALSE, df |-> EmptyFrame]
    /\ f_stage = "idle"

LoadIdle ==
    /\ l_kind = "xlsx"
    /\ l_file = NoFile
    /\ l_headers = NoHeaders
    /\ l_column = <<>>
    /\ l_parsed = EmptyFrame
    /\ l_df = EmptyFrame
    /\ l_stage = "idle"
    /\ l_result = [emitted |-> FALSE, result |-> NoResult, file_total |-> 0]

(***************************************************************************)
(* SpecCard: _extract_monthly_card applied to generated file names         *)
(***************************************************************************)
CardNumber == <<"2", "0", "2", "4", "0", "1", "0", "1", "1", "2">>

NameTokens == {<<"a">>, <<".">>, <<"9">>, <<"1", "2", "3", "4", "5">>, CardNumber}

RECURSIVE NamesOf(_)
NamesOf(n) ==
    IF n = 0 THEN {<<>>}
    ELSE NamesOf(n - 1) \cup {a \o t : a \in NamesOf(n - 1), t \in NameTokens}

CardInit ==
    /\ c_filename \in NamesOf(MaxNameTokens)
    /\ c_card = <<>>
    /\ c_done = FALSE
    /\ WorkerIdle /\ WindowIdle /\ FilterIdle /\ LoadIdle

\* monthly_card = self._extract_monthly_card(name)
CardExtract ==
    /\ ~c_done
    /\ c_card' = ExtractMonthlyCard(c_filename)
    /\ c_done' = TRUE
    /\ UNCHANGED <<c_filename, workerVars, windowVars, filterVars, loadVars>>

CardNext == CardExtract

SpecCard == CardInit /\ [][CardNext]_vars

\* the maximal blocks of consecutive digits of a name, by start position
BlockStarts(name) ==
    {i \in 1..Len(name) : IsDigit(name[i]) /\ (i = 1 \/ ~IsDigit(name[i - 1]))}

BlockLen(name, i) ==
    Min({n \in 1..(Len(name) - i + 1) :
            i + n > Len(name) \/ ~IsDigit(name[i + n])})

ExactBlocks(name) == {i \in BlockStarts(name) : BlockLen(name, i) = CardDigits}

LongBlocks(name) == {i \in BlockStarts(name) : BlockLen(name, i) >= CardDigits}

\* C6 as stated: the identifier is the first maximal block of exactly ten
\* digits, and empty when the name has no such block
C6_FirstExactBlock ==
    c_done =>
        c_card = IF ExactBlocks(c_filename) = {} THEN <<>>
                 ELSE SubSeq(c_filename, Min(ExactBlocks(c_filename)),
                             Min(ExactBlocks(c_filename)) + CardDigits - 1)

\* C6 amended: the identifier is the first ten digits of the first block of
\* ten or more consecutive digits, and empty when the name has no such block;
\* a name whose only digits are 2024010112 yields 2024010112
C6_FirstTenDigits ==
    c_done =>
        /\ c_card = IF LongBlocks(c_filename) = {} THEN <<>>
                    ELSE SubSeq(c_filename, Min(LongBlocks(c_filename)),
                                Min(LongBlocks(c_filename)) + CardDigits - 1)
        /\ (BlockStarts(c_filename) # {} /\
            \A i \in BlockStarts(c_filename) :
                SubSeq(c_filename, i, i + BlockLen(c_filename, i) - 1) = CardNumber)
           => c_card = CardNumber

\* a name whose first long block has more than ten digits has been handled
C6_Witness ==
    /\ c_done
    /\ LongBlocks(c_filename) # {}
    /\ BlockLen(c_filename, Min(LongBlocks(c_filename))) > CardDigits
    /\ Len(c_card) = CardDigits

(***************************************************************************)
(* SpecFilter: _preprocess_df applied once and again to generated tables   *)
(***************************************************************************)
GenColumnNames == {<<"a">>, <<He, Ji>>, <<Sp, He, Sp, Ji, Sp>>, <<He, Ji, "x">>}

GenCells == {Num(7), NaN, Text(<<He, Ji>>), Text(<<"x", He, Sp, Ji>>), Text(<<He, "x", Ji>>)}

GenShapes ==
    {sh \in (1..MaxCols) \X (0..MaxCells) : sh[1] * sh[2] <= MaxCells}

\* the frames with nc columns and nr rows; labels may repeat, as they may
\* after a header override
GenFrames(nc, nr) ==
    {ParsedFrame(names, data) :
        names \in [1..nc -> GenColumnNames],
        data \in [1..nr -> [1..nc -> GenCells]]}

FilterInit ==
    /\ \E sh \in GenShapes : f_df \in GenFrames(sh[1], sh[2])
    /\ f_once = [raised |-> FALSE, df |-> EmptyFrame]
    /\ f_twice = [raised |-> FALSE, df |-> EmptyFrame]
    /\ f_stage = "input"
    /\ WorkerIdle /\ WindowIdle /\ CardIdle /\ LoadIdle

\* df = self._preprocess_df(df)
FilterOnce ==
    /\ f_stage = "input"
    /\ f_once' = PreprocessDf(f_df)
    /\ f_stage' = "once"
    /\ UNCHANGED <<f_df, f_twice, workerVars, windowVars, cardVars, loadVars>>

\* the filter applied to its own result
FilterTwice ==
    /\ f_stage = "once"
    /\ ~f_once.raised
    /\ f_twice' = PreprocessDf(f_once.df)
    /\ f_stage' = "twice"
    /\ UNCHANGED <<f_df, f_once, workerVars, windowVars, cardVars, loadVars>>

FilterNext == FilterOnce \/ FilterTwice

SpecFilter == FilterInit /\ [][FilterNext]_vars

\* out is df with some columns and some rows taken away, nothing reordered
IsSelectionOf(out, df) ==
    \E cols \in SUBSET (1..Len(df.columns)) :
        \E rows \in SUBSET (1..Len(df.data)) :
            out = TakeRows(TakeColumns(df, cols), rows)

\* C7: filtering a filtered table changes nothing, and the filtered table is
\* the input with rows and columns removed, the rest in their original order
C7_Idempotent ==
    /\ (f_stage \in {"once", "twice"} /\ ~f_once.raised)
            => IsSelectionOf(f_once.df, f_df)
    /\ f_stage = "twice" => f_twice = f_once

\* a table that lost a column and a row, and kept two rows, was filtered twice
C7_Witness ==
    /\ f_stage = "twice"
    /\ Len(f_once.df.columns) < Len(f_df.columns)
    /\ Len(f_once.df.data) < Len(f_df.data)
    /\ Len(f_once.df.columns) >= 1
    /\ Len(f_once.df.data) >= 1

\* the columns of the input that the column pass leaves
Remaining(df) == {j \in 1..Len(df.columns) : Strip(df.columns[j]) \notin Markers}

\* the cell is text that has He Ji or He blank Ji in it
IsTotalText(cell) ==
    /\ cell.k = "text"
    /\ \/ Contains(cell.s, <<He, Ji>>)
       \/ Contains(cell.s, <<He, Sp, Ji>>)

\* C8: a row is gone from the filtered table exactly when one of its cells in
\* a remaining textual column contains a marker; a row whose only text cell
\* in the remaining columns reads He Ji is gone whatever its numbers are, and
\* every row without such a cell stays
C8_RowDropped ==
    (f_stage \in {"once", "twice"} /\ ~f_once.raised) =>
        \A r \in 1..Len(f_df.data) :
            LET kept == \E q \in 1..Len(f_once.df.index) : f_once.df.index[q] = r - 1
                hit == \E j \in Remaining(f_df) :
                          /\ f_df.dtypes[j] = "object"
                          /\ IsTotalText(f_df.data[r][j])
            IN  /\ kept <=> ~hit
                /\ (\E j \in Remaining(f_df) :
                       /\ f_df.data[r][j] = Text(<<He, Ji>>)
                       /\ \A i \in Remaining(f_df) \ {j} : f_df.data[r][i].k # "text")
                   => ~kept

\* a row with a number and He Ji as its only text was dropped, and a row with
\* the marker inside a longer text was dropped
C8_Witness ==
    /\ f_stage = "once"
    /\ ~f_once.raised
    /\ Len(f_df.data) = 2
    /\ Len(f_df.columns) = 2
    /\ Remaining(f_df) = {1, 2}
    /\ f_df.data[1] = <<Num(7), Text(<<He, Ji>>)>>
    /\ f_df.data[2] = <<Text(<<"x", He, Sp, Ji>>), Num(7)>>
    /\ f_once.df.data = <<>>

(***************************************************************************)
(* SpecLoad: the try body of one file, one statement at a time             *)
(***************************************************************************)
HeaderNames == {ColN, ColA, <<He, Ji>>}

\* None, or a list of at most n names
HeadersUpTo(n) ==
    {[none |-> TRUE, names |-> <<>>]} \cup
    {[none |-> FALSE, names |-> names] :
        names \in UNION {[1..k -> HeaderNames] : k \in 0..n}}

LoadColumns == {ColA, <<He, Ji>>}

LoadInit ==
    /\ l_kind \in {"xlsx", "csv"}
    /\ l_file \in Files
    /\ l_headers \in HeadersUpTo(MaxCols)
    /\ l_column \in LoadColumns
    /\ l_parsed = EmptyFrame
    /\ l_df = EmptyFrame
    /\ l_stage = "try"
    /\ l_result = NothingEmitted
    /\ WorkerIdle /\ WindowIdle /\ CardIdle /\ FilterIdle

\* lines 112 and 144-147
LoadRead ==
    /\ l_stage = "try"
    /\ LET read == IF l_kind = "xlsx" THEN ReadExcel(l_file) ELSE ReadCsv(l_file)
       IN  IF read.raised
           THEN /\ l_stage' = "except"
                /\ UNCHANGED <<l_parsed, l_df>>
           ELSE /\ l_stage' = "read"
                /\ l_parsed' = read.df
                /\ l_df' = read.df
    /\ UNCHANGED <<l_kind, l_file, l_headers, l_column, l_result,
                   workerVars, windowVars, cardVars, filterVars>>

\* lines 113-114 and 149-150
LoadSetHeaders ==
    /\ l_stage = "read"
    /\ l_df' = SetHeaders(l_df, l_headers)
    /\ l_stage' = "named"
    /\ UNCHANGED <<l_kind, l_file, l_headers, l_column, l_parsed, l_result,
                   workerVars, windowVars, cardVars, filterVars>>

\* lines 117 and 153
LoadPreprocess ==
    /\ l_stage = "named"
    /\ IF PreprocessDf(l_df).raised
       THEN l_stage' = "except" /\ UNCHANGED l_df
       ELSE l_stage' = "filtered" /\ l_df' = PreprocessDf(l_df).df
    /\ UNCHANGED <<l_kind, l_file, l_headers, l_column, l_parsed, l_result,
                   workerVars, windowVars, cardVars, filterVars>>

\* lines 119-134 and 155-169
LoadAggregate ==
    /\ l_stage = "filtered"
    /\ l_result' = Aggregate(l_df, 1, l_file, l_column)
    /\ IF HasColumn(l_df, l_column)
       THEN l_stage' = "emitted" /\ l_df' = CoerceColumn(l_df, l_column)
       ELSE l_stage' = "skipped" /\ UNCHANGED l_df
    /\ UNCHANGED <<l_kind, l_file, l_headers, l_column, l_parsed,
                   workerVars, windowVars, cardVars, filterVars>>

LoadNext == LoadRead \/ LoadSetHeaders \/ LoadPreprocess \/ LoadAggregate

SpecLoad == LoadInit /\ [][LoadNext]_vars

\* the statements taken one by one give what the try body gives as a whole
LoadAgreesWithTryBody ==
    l_stage \in {"except", "emitted", "skipped"} =>
        l_result = TryBody(IF l_kind = "xlsx" THEN ReadExcel(l_file) ELSE ReadCsv(l_file),
                           1, l_file, l_headers, l_column)

\* C9: the table that reaches the aggregation step has no column whose
\* trimmed name is He Ji or He blank Ji, whatever the file and the override
\* held, and the column that is summed is never such a column
C9_NoTotalColumn ==
    /\ l_stage \in {"filtered", "emitted", "skipped"} =>
            \A j \in 1..Len(l_df.columns) :
                Strip(l_df.columns[j]) \notin {<<He, Ji>>, <<He, Sp, Ji>>}
    /\ l_stage = "emitted" =>
            /\ Strip(l_column) \notin {<<He, Ji>>, <<He, Sp, Ji>>}
            /\ l_result.emitted

\* a file with a total column in its header row was summed
C9_Witness ==
    /\ l_stage = "emitted"
    /\ l_headers.none
    /\ \E j \in 1..Len(l_file.columns) : Strip(l_file.columns[j]) = <<He, Sp, Ji>>
    /\ Len(l_df.columns) < Len(l_file.columns)

\* C10: for a spreadsheet and for a delimited-text file alike, after the
\* override step the column names are the override, in its order, exactly
\* when an override is given and is as long as the parsed header row;
\* otherwise they are the parsed names; the cells are untouched
C10_HeaderOverride ==
    l_stage = "named" =>
        /\ l_df.data = l_parsed.data
        /\ IF ~l_headers.none /\ Len(l_headers.names) = Len(l_parsed.columns)
           THEN l_df.columns = l_headers.names
           ELSE l_df.columns = l_parsed.columns

\* a three-name override was put on a three-column delimited-text file
C10_Witness ==
    /\ l_stage = "named"
    /\ l_kind = "csv"
    /\ Len(l_parsed.columns) = 3
    /\ ~l_headers.none
    /\ Len(l_headers.names) = 3
    /\ l_df.columns = l_headers.names
    /\ l_df.columns # l_parsed.columns

\* a two-name override was ignored on a three-column spreadsheet
C10_WitnessIgnored ==
    /\ l_stage = "named"
    /\ l_kind = "xlsx"
    /\ Len(l_parsed.columns) = 3
    /\ ~l_headers.none
    /\ Len(l_headers.names) = 2
    /\ l_df.columns = l_parsed.columns

\* the column names of the table after the override step
NamedColumns ==
    IF ~l_headers.none /\ Len(l_headers.names) = Len(l_parsed.columns)
    THEN l_headers.names ELSE l_parsed.columns

\* the positions of the columns that are not total columns
NamedRemaining == {j \in 1..Len(NamedColumns) : Strip(NamedColumns[j]) \notin Markers}

\* the parsed rows that the summary filter retains
RetainedRows ==
    {r \in 1..Len(l_parsed.data) :
        ~\E j \in NamedRemaining :
            l_parsed.dtypes[j] = "object" /\ IsTotalText(l_parsed.data[r][j])}

\* what a cell contributes to a subtotal: its number when it is a number or
\* a text of decimal digits, zero when it is other text or missing
Contribution(cell) ==
    IF cell.k = "num" THEN cell.n
    ELSE IF cell.k = "text" /\ cell.s # <<>> /\ \A i \in 1..Len(cell.s) : IsDigit(cell.s[i])
    THEN DecimalValue(cell.s)
    ELSE 0

\* the contributions of column j over the rows of a set
RECURSIVE SumOver(_, _)
SumOver(rows, j) ==
    IF rows = {} THEN 0
    ELSE LET r == CHOOSE x \in rows : TRUE
         IN  Contribution(l_parsed.data[r][j]) + SumOver(rows \ {r}, j)

\* C11: the subtotal of a file is the sum of the numeric-coercible cells of
\* the target column over exactly the rows the summary filter retains; a
\* cell that is not coercible or is missing adds zero and never makes the
\* file skipped or failed; a target column without a numeric cell, or
\* without a row, gives a subtotal of zero that is still emitted and counted
C11_Subtotal ==
    /\ l_stage = "emitted" =>
            /\ l_result.emitted
            /\ \E j \in NamedRemaining :
                  /\ NamedColumns[j] = l_column
                  /\ l_result.result.amount = SumOver(RetainedRows, j)
                  /\ l_result.file_total = SumOver(RetainedRows, j)
    /\ l_stage = "skipped" =>
            ~\E j \in NamedRemaining : NamedColumns[j] = l_column
    /\ (l_stage = "except" /\ l_parsed # EmptyFrame) =>
            \E i, j \in NamedRemaining : i # j /\ NamedColumns[i] = NamedColumns[j]

\* a file whose target column holds a text of digits and a text that is not
\* a number was summed to the digits alone
C11_Witness ==
    /\ l_stage = "emitted"
    /\ l_file = FileD
    /\ l_headers.none
    /\ l_column = ColA
    /\ RetainedRows = {1, 2}
    /\ l_result.result.amount = 7

\* a target column with no row was emitted with a subtotal of zero
C11_WitnessNoRows ==
    /\ l_stage = "emitted"
    /\ l_file = FileG
    /\ l_result.emitted
    /\ l_result.result.amount = 0

\* a total row was left out of the subtotal
C11_WitnessFiltered ==
    /\ l_stage = "emitted"
    /\ l_file = FileA
    /\ l_headers.none
    /\ RetainedRows = {1, 2}
    /\ l_result.result.amount = 5

(***************************************************************************)
(* Spec: one run of AnalysisWorker                                         *)
(*                                                                         *)
(* The worker is constructed with the directory list, the column and the   *)
(* override; its caller may call stop() at any moment.  The directories    *)
(* are the paths 1..n; what a directory holds is drawn from DirLayouts.    *)
(* Listing a directory (the first step of a glob loop) may raise, which    *)
(* no per-file except clause catches.                                      *)
(***************************************************************************)
DirLayouts ==
    {[xlsx |-> <<FileA, FileB>>, csv |-> <<FileE>>],
     [xlsx |-> <<FileC>>, csv |-> <<FileF, FileD>>],
     [xlsx |-> <<FileD>>, csv |-> <<>>],
     [xlsx |-> <<>>, csv |-> <<>>]}

RunHeaders ==
    {[none |-> TRUE, names |-> <<>>],
     [none |-> FALSE, names |-> <<ColN, ColA>>],
     [none |-> FALSE, names |-> <<ColA, ColA>>],
     [none |-> FALSE, names |-> <<ColA, ColN, <<He, Ji>>>>]}

Progress(directory) ==
    [sig |-> "progress", directory |-> directory, result |-> NoResult, summary |-> NoSummary]

ResultReady(result) ==
    [sig |-> "result", directory |-> result.directory, result |-> result,
     summary |-> NoSummary]

Finished(summary) ==
    [sig |-> "finished", directory |-> 0, result |-> NoResult, summary |-> summary]

ErrorOccurred ==
    [sig |-> "error", directory |-> 0, result |-> NoResult, summary |-> NoSummary]

\* the state after AnalysisWorker.__init__ (lines 63-68)
Init ==
    /\ \E n \in 1..MaxDirs :
          /\ directories = [i \in 1..n |-> i]
          /\ fs \in [1..n -> DirLayouts]
    /\ amount_column = ColA
    /\ custom_headers \in RunHeaders
    /\ is_running = TRUE
    /\ pc = "ready"
    /\ di = 0
    /\ xi = 0
    /\ ci = 0
    /\ total_amount_all = 0
    /\ total_files_all = 0
    /\ log = <<>>
    /\ visited = <<>>
    /\ stopAt = NotStopped
    /\ loop_directory = 0
    /\ WindowIdle /\ CardIdle /\ FilterIdle /\ LoadIdle

others == <<windowVars, cardVars, filterVars, loadVars>>
inputs == <<directories, fs, amount_column, custom_headers>>

\* stop(), lines 182-183; a second call changes nothing
Stop ==
    /\ is_running
    /\ is_running' = FALSE
    /\ stopAt' = [called |-> TRUE, pc |-> pc, di |-> di, xi |-> xi, ci |-> ci]
    /\ UNCHANGED <<inputs, pc, di, xi, ci, total_amount_all, total_files_all,
                   log, visited, loop_directory, others>>

\* lines 97-99
Begin ==
    /\ pc = "ready"
    /\ total_amount_all' = 0
    /\ total_files_all' = 0
    /\ pc' = "dir"
    /\ UNCHANGED <<inputs, is_running, di, xi, ci, log, visited, stopAt,
                   loop_directory, others>>

\* as if the directory loop had no cancellation check
NextDirectoryNoCheck ==
    /\ pc = "dir"
    /\ IF di >= Len(directories)
       THEN /\ pc' = "summary"
            /\ UNCHANGED <<di, xi, log, loop_directory>>
       ELSE /\ di' = di + 1
            /\ loop_directory' = directories[di + 1]
            /\ log' = Append(log, Progress(directories[di + 1]))
            /\ xi' = 0
            /\ pc' = "xlsx"
    /\ UNCHANGED <<inputs, is_running, ci, total_amount_all, total_files_all,
                   visited, stopAt, others>>

\* as if the progress signal of a directory were not emitted
NextDirectoryNoProgress ==
    /\ pc = "dir"
    /\ IF di >= Len(directories)
       THEN /\ pc' = "summary"
            /\ UNCHANGED <<di, xi, loop_directory>>
       ELSE /\ di' = di + 1
            /\ loop_directory' = directories[di + 1]
            /\ IF ~is_running
               THEN pc' = "summary" /\ UNCHANGED xi
               ELSE xi' = 0 /\ pc' = "xlsx"
    /\ UNCHANGED <<inputs, is_running, ci, total_amount_all, total_files_all,
                   log, visited, stopAt, others>>

\* lines 101-105: the next directory, the cancellation check, the progress
\* signal
NextDirectory ==
    /\ pc = "dir"
    /\ IF di >= Len(directories)
       THEN /\ pc' = "summary"
            /\ UNCHANGED <<di, xi, log, loop_directory>>
       ELSE /\ di' = di + 1
            /\ loop_directory' = directories[di + 1]
            /\ IF ~is_running
               THEN /\ pc' = "summary"
                    /\ UNCHANGED <<xi, log>>
               ELSE /\ log' = Append(log, Progress(directories[di + 1]))
                    /\ xi' = 0
                    /\ pc' = "xlsx"
    /\ UNCHANGED <<inputs, is_running, ci, total_amount_all, total_files_all,
                   visited, stopAt, others>>

\* as if the *.xlsx loop had no cancellation check
NextExcelNoCheck ==
    /\ pc = "xlsx"
    /\ IF xi = Len(fs[loop_directory].xlsx)
       THEN pc' = "csv" /\ ci' = 0 /\ UNCHANGED xi
       ELSE xi' = xi + 1 /\ pc' = "xlsxTry" /\ UNCHANGED ci
    /\ UNCHANGED <<inputs, is_running, di, total_amount_all, total_files_all,
                   log, visited, stopAt, loop_directory, others>>

\* lines 108-110: the next *.xlsx file and the cancellation check
NextExcel ==
    /\ pc = "xlsx"
    /\ IF xi = Len(fs[loop_directory].xlsx)
       THEN /\ pc' = "csv"
            /\ ci' = 0
            /\ UNCHANGED xi
       ELSE /\ xi' = xi + 1
            /\ IF ~is_running
               THEN pc' = "csv" /\ ci' = 0
               ELSE pc' = "xlsxTry" /\ UNCHANGED ci
    /\ UNCHANGED <<inputs, is_running, di, total_amount_all, total_files_all,
                   log, visited, stopAt, loop_directory, others>>

\* lines 111-136
ExcelFile ==
    /\ pc = "xlsxTry"
    /\ LET out == ExcelTry(loop_directory, fs[loop_directory].xlsx[xi],
                           custom_headers, amount_column)
       IN  /\ log' = IF out.emitted THEN Append(log, ResultReady(out.result)) ELSE log
           /\ total_amount_all' = IF out.emitted
                                  THEN Accumulate(total_amount_all, out.file_total)
                                  ELSE total_amount_all
           /\ total_files_all' = IF out.emitted THEN total_files_all + 1
                                 ELSE total_files_all
    /\ visited' = Append(visited, <<loop_directory, "xlsx", xi>>)
    /\ pc' = "xlsx"
    /\ UNCHANGED <<inputs, is_running, di, xi, ci, stopAt, loop_directory, others>>

\* lines 139-141: the next *.csv file and the cancellation check
NextCsv ==
    /\ pc = "csv"
    /\ IF ci = Len(fs[loop_directory].csv)
       THEN /\ pc' = "dir"
            /\ UNCHANGED ci
       ELSE /\ ci' = ci + 1
            /\ IF ~is_running THEN pc' = "dir" ELSE pc' = "csvTry"
    /\ UNCHANGED <<inputs, is_running, di, xi, total_amount_all, total_files_all,
                   log, visited, stopAt, loop_directory, others>>

\* lines 142-171
CsvFile ==
    /\ pc = "csvTry"
    /\ LET out == CsvTry(loop_directory, fs[loop_directory].csv[ci],
                         custom_headers, amount_column)
       IN  /\ log' = IF out.emitted THEN Append(log, ResultReady(out.result)) ELSE log
           /\ total_amount_all' = IF out.emitted
                                  THEN Accumulate(total_amount_all, out.file_total)
                                  ELSE total_amount_all
           /\ total_files_all' = IF out.emitted THEN total_files_all + 1
                                 ELSE total_files_all
    /\ visited' = Append(visited, <<loop_directory, "csv", ci>>)
    /\ pc' = "csv"
    /\ UNCHANGED <<inputs, is_running, di, xi, ci, stopAt, loop_directory, others>>

\* as if the summary were emitted after the except clause too
ListingFailsThenSummary ==
    /\ \/ pc = "xlsx" /\ xi = 0
       \/ pc = "csv" /\ ci = 0
    /\ log' = Append(log, ErrorOccurred)
    /\ pc' = "summary"
    /\ UNCHANGED <<inputs, is_running, di, xi, ci, total_amount_all, total_files_all,
                   visited, stopAt, loop_directory, others>>

\* lines 108 and 139 with 179-180: listing the directory raises when the
\* loop asks the glob for its first file; the exception leaves the loops
ListingFails ==
    /\ \/ pc = "xlsx" /\ xi = 0
       \/ pc = "csv" /\ ci = 0
    /\ log' = Append(log, ErrorOccurred)
    /\ pc' = "done"
    /\ UNCHANGED <<inputs, is_running, di, xi, ci, total_amount_all, total_files_all,
                   visited, stopAt, loop_directory, others>>

\* lines 173-177
EmitSummary ==
    /\ pc = "summary"
    /\ log' = Append(log, Finished([total_files |-> total_files_all,
                                    total_amount |-> total_amount_all]))
    /\ pc' = "done"
    /\ UNCHANGED <<inputs, is_running, di, xi, ci, total_amount_all, total_files_all,
                   visited, stopAt, loop_directory, others>>

Next ==
    \/ Stop
    \/ Begin
    \/ NextDirectory
    \/ NextExcel
    \/ ExcelFile
    \/ NextCsv
    \/ CsvFile
    \/ ListingFails
    \/ EmitSummary

Spec == Init /\ [][Next]_vars

(***************************************************************************)
(* What the receiver of the signals has seen                               *)
(***************************************************************************)
Signals(kind) == {i \in 1..Len(log) : log[i].sig = kind}

FinalSignals == Signals("finished") \cup Signals("error")

Completed == pc = "done" /\ log # <<>> /\ log[Len(log)].sig = "finished"

\* stop() was called before the run ended
Cancelled == stopAt.called /\ stopAt.pc # "done"

\* the sum of the amounts of the results among the first k signals
RECURSIVE EmittedAmount(_)
EmittedAmount(k) ==
    IF k = 0 THEN 0
    ELSE EmittedAmount(k - 1) + (IF log[k].sig = "result" THEN log[k].result.amount ELSE 0)

\* the files of a directory, xlsx first: <<directory, kind, position>>
FilesOf(d) ==
    {<<d, "xlsx", i>> : i \in 1..Len(fs[d].xlsx)} \cup
    {<<d, "csv", i>> : i \in 1..Len(fs[d].csv)}

AllFiles == UNION {FilesOf(directories[k]) : k \in 1..Len(directories)}

FileAt(f) == IF f[2] = "xlsx" THEN fs[f[1]].xlsx[f[3]] ELSE fs[f[1]].csv[f[3]]

TableOf(f) == IF f[2] = "xlsx" THEN ReadExcel(FileAt(f)) ELSE ReadCsv(FileAt(f))

\* the read or the filter of the file raises
FileRaises(f) ==
    \/ TableOf(f).raised
    \/ PreprocessDf(SetHeaders(TableOf(f).df, custom_headers)).raised

\* the file loads and has the target column after override and filtering
HasTarget(f) ==
    /\ ~FileRaises(f)
    /\ \E j \in 1..Len(PreprocessDf(SetHeaders(TableOf(f).df, custom_headers)).df.columns) :
          PreprocessDf(SetHeaders(TableOf(f).df, custom_headers)).df.columns[j]
              = amount_column

\* the signal is the result of file f
IsResultOf(e, f) ==
    e.sig = "result" /\ e.result.directory = f[1] /\ e.result.filename = FileAt(f).name

\* the guard of one of the steps of run() holds
RunCanStep ==
    \/ pc \in {"ready", "dir", "summary"}
    \/ pc \in {"xlsx", "csv"} /\ di \in 1..Len(directories)
    \/ pc = "xlsxTry" /\ di \in 1..Len(directories)
                      /\ xi \in 1..Len(fs[directories[di]].xlsx)
    \/ pc = "csvTry" /\ di \in 1..Len(directories)
                     /\ ci \in 1..Len(fs[directories[di]].csv)

\* C1: at most one of finished and error has been emitted, once, and nothing
\* follows it; the run has ended exactly when it has been emitted, and until
\* then run() has a next step to take
C1_OneFinalSignal ==
    /\ Cardinality(FinalSignals) <= 1
    /\ \A i \in FinalSignals : i = Len(log)
    /\ pc = "done" <=> Cardinality(FinalSignals) = 1
    /\ pc # "done" => RunCanStep

\* a run over failing files that was cancelled has ended with its one signal
C1_Witness ==
    /\ pc = "done"
    /\ Cancelled
    /\ Signals("finished") = {Len(log)}
    /\ Signals("result") # {}
    /\ \E f \in AllFiles : FileRaises(f)

\* a run has ended with the error signal after results were emitted
C1_WitnessError ==
    /\ pc = "done"
    /\ Signals("error") = {Len(log)}
    /\ Signals("result") # {}

\* C2: an uncancelled run that completes has emitted one result for each
\* file that has the target column after override and filtering and none
\* for the other files, and its summary counts exactly those files
C2_ResultCount ==
    (Completed /\ ~Cancelled) =>
        /\ Cardinality(Signals("result")) = Cardinality({f \in AllFiles : HasTarget(f)})
        /\ log[Len(log)].summary.total_files = Cardinality({f \in AllFiles : HasTarget(f)})
        /\ \A f \in AllFiles :
              HasTarget(f) <=> \E i \in Signals("result") : IsResultOf(log[i], f)

\* an uncancelled run over files with and without the column (one of them
\* named by the override) has completed
C2_Witness ==
    /\ Completed
    /\ ~Cancelled
    /\ Cardinality({f \in AllFiles : HasTarget(f)}) >= 2
    /\ \E f \in AllFiles : ~HasTarget(f) /\ ~FileRaises(f)
    /\ Cardinality(AllFiles) > Cardinality({f \in AllFiles : HasTarget(f)}) + 1

\* C3: a finished signal carries the sum of the amounts and the number of
\* the results emitted before it, in cancelled runs too
C3_SummaryMatchesResults ==
    \A i \in Signals("finished") :
        /\ log[i].summary.total_amount = EmittedAmount(i)
        /\ log[i].summary.total_files = Cardinality({j \in Signals("result") : j < i})

\* a cancelled run has finished with several results and a total
C3_Witness ==
    /\ Completed
    /\ Cancelled
    /\ Cardinality(Signals("result")) >= 2
    /\ log[Len(log)].summary.total_amount > 0
    /\ \E i \in Signals("result") : log[i].result.amount # log[Len(log)].summary.total_amount

\* stop() came when the loops of directory 1 had ended and the check of
\* directory 2 had not been made
StoppedAfterFirstDirectory ==
    /\ stopAt.called
    /\ Len(directories) = 3
    /\ stopAt.di = 1
    /\ \/ stopAt.pc = "dir"
       \/ stopAt.pc = "csv" /\ stopAt.ci > 0 /\ stopAt.ci = Len(fs[directories[1]].csv)

\* the total of the files of directory d that have the target column
RECURSIVE DirectoryAmount(_, _, _)
DirectoryAmount(d, kind, i) ==
    IF i = 0 THEN 0
    ELSE DirectoryAmount(d, kind, i - 1) +
         (IF kind = "xlsx"
          THEN ExcelTry(d, fs[d].xlsx[i], custom_headers, amount_column).file_total
          ELSE CsvTry(d, fs[d].csv[i], custom_headers, amount_column).file_total)

\* C4: a run over three directories that is stopped between directory 1 and
\* directory 2 ends with finished, not error; its results and its summary
\* are those of the files of directory 1, and there is no progress signal
\* and no result for directories 2 and 3
C4_CancelBetweenDirectories ==
    (pc = "done" /\ StoppedAfterFirstDirectory) =>
        /\ Signals("finished") = {Len(log)}
        /\ Signals("error") = {}
        /\ \A i \in 1..Len(log) : log[i].sig \in {"progress", "result"}
                                    => log[i].directory = directories[1]
        /\ \A f \in FilesOf(directories[1]) :
              HasTarget(f) <=> \E i \in Signals("result") : IsResultOf(log[i], f)
        /\ log[Len(log)].summary.total_files =
              Cardinality({f \in FilesOf(directories[1]) : HasTarget(f)})
        /\ log[Len(log)].summary.total_amount =
              DirectoryAmount(directories[1], "xlsx", Len(fs[directories[1]].xlsx))
              + DirectoryAmount(directories[1], "csv", Len(fs[directories[1]].csv))

\* such a run has ended; directory 1 gave results and directory 2 would have
C4_Witness ==
    /\ pc = "done"
    /\ StoppedAfterFirstDirectory
    /\ Signals("result") # {}
    /\ \E f \in FilesOf(directories[2]) : HasTarget(f)
    /\ \E f \in FilesOf(directories[3]) : HasTarget(f)

\* the file whose try body is about to run
CurrentFile == <<directories[di], IF pc = "xlsxTry" THEN "xlsx" ELSE "csv",
                 IF pc = "xlsxTry" THEN xi ELSE ci>>

\* C5: the try body of a file that raises emits nothing, counts nothing and
\* hands control back to the loop of its kind; no result is ever emitted for
\* such a file; and an uncancelled run that completes has taken every file
\* of every directory through its try body, the files after a failing one
\* included
C5_FileErrorSkipped ==
    /\ [][(pc \in {"xlsxTry", "csvTry"} /\ pc' # pc /\ FileRaises(CurrentFile)) =>
            /\ log' = log
            /\ total_files_all' = total_files_all
            /\ total_amount_all' = total_amount_all
            /\ pc' = (IF pc = "xlsxTry" THEN "xlsx" ELSE "csv")]_vars
    /\ [](\A i \in Signals("result") : \A f \in AllFiles :
                IsResultOf(log[i], f) => ~FileRaises(f))
    /\ []((Completed /\ ~Cancelled) =>
            \A f \in AllFiles : \E v \in 1..Len(visited) : visited[v] = f)

\* an uncancelled run has completed although a spreadsheet and a
\* delimited-text file raised, with a result for a file after them
C5_Witness ==
    /\ Completed
    /\ ~Cancelled
    /\ \E f \in AllFiles : f[2] = "xlsx" /\ FileRaises(f)
    /\ \E f \in AllFiles : \E g \in AllFiles :
          /\ f[2] = "csv" /\ g[2] = "csv" /\ f[1] = g[1] /\ f[3] < g[3]
          /\ FileRaises(f)
          /\ \E i \in Signals("result") : IsResultOf(log[i], g)

\* the number of progress signals among the first k signals
ProgressBefore(k) == Cardinality({i \in Signals("progress") : i <= k})

\* the place of the file of a result in the listing of its directory,
\* spreadsheets first: 0 when the directory holds no file of that name
ListingPlace(e) ==
    LET d == e.result.directory
        x == {i \in 1..Len(fs[d].xlsx) : fs[d].xlsx[i].name = e.result.filename}
        c == {i \in 1..Len(fs[d].csv) : fs[d].csv[i].name = e.result.filename}
    IN  IF x # {} THEN Min(x)
        ELSE IF c # {} THEN Len(fs[d].xlsx) + Min(c)
        ELSE 0

\* C16: the k-th progress signal names the k-th directory of the list, so
\* directories are handled in the caller's order with one progress signal
\* each; every result follows the progress signal of its own directory and
\* precedes the next progress signal; within a directory the results come in
\* listing order with every spreadsheet result before every delimited-text
\* result; the finished or error signal is the last signal
C16_StreamOrder ==
    /\ \A i \in Signals("progress") :
          /\ ProgressBefore(i) <= Len(directories)
          /\ log[i].directory = directories[ProgressBefore(i)]
    /\ \A i \in Signals("result") :
          /\ ProgressBefore(i) >= 1
          /\ log[i].result.directory = directories[ProgressBefore(i)]
          /\ ListingPlace(log[i]) >= 1
    /\ \A i, j \in Signals("result") :
          (i < j /\ log[i].result.directory = log[j].result.directory) =>
              /\ ListingPlace(log[i]) < ListingPlace(log[j])
              /\ ~(ListingPlace(log[i]) > Len(fs[log[i].result.directory].xlsx)
                   /\ ListingPlace(log[j]) <= Len(fs[log[j].result.directory].xlsx))
    /\ \A i \in FinalSignals : \A j \in 1..Len(log) : j <= i

\* a run has completed in which a directory gave a spreadsheet result and
\* then a delimited-text result, and a later directory gave a result too
C16_Witness ==
    /\ Completed
    /\ Cardinality(Signals("progress")) >= 2
    /\ \E i, j, k \in Signals("result") :
          /\ i < j /\ j < k
          /\ log[i].result.directory = log[j].result.directory
          /\ ListingPlace(log[i]) <= Len(fs[log[i].result.directory].xlsx)
          /\ ListingPlace(log[j]) > Len(fs[log[j].result.directory].xlsx)
          /\ log[k].result.directory # log[j].result.directory

\* the file at this place of the listing has gone through its try body
WasVisited(d, kind, i) == \E v \in 1..Len(visited) : visited[v] = <<d, kind, i>>

\* C17: after stop() the only file that still goes through its try body is
\* the one whose try body had begun when stop() was called, so at most one
\* more result is emitted; no file whose check comes after the call is
\* loaded; the delimited-text files of the directory of the call, unless
\* their loop had been reached, and every later directory are left alone;
\* the only signals after the call are that result and the final signal;
\* and unless a directory listing raises, the run ends with the finished
\* signal, whose summary is the count and the sum of the results emitted
C17_StopAtBoundary ==
    /\ [][(~is_running /\ visited' # visited) =>
            /\ stopAt.pc \in {"xlsxTry", "csvTry"}
            /\ stopAt.pc = pc /\ stopAt.di = di /\ stopAt.xi = xi /\ stopAt.ci = ci
            /\ Len(visited') = Len(visited) + 1]_vars
    /\ [][(~is_running /\ log' # log) =>
            /\ Len(log') = Len(log) + 1
            /\ \/ log'[Len(log')].sig \in {"finished", "error"}
               \/ /\ log'[Len(log')].sig = "result"
                  /\ stopAt.pc = pc /\ stopAt.di = di /\ stopAt.xi = xi
                  /\ stopAt.ci = ci]_vars
    /\ [](stopAt.called =>
            \A v \in 1..Len(visited) :
                \E k \in 1..stopAt.di :
                    /\ visited[v][1] = directories[k]
                    /\ (k = stopAt.di /\ stopAt.pc \in {"xlsx", "xlsxTry"}) =>
                          (visited[v][2] = "xlsx" /\ visited[v][3] <= stopAt.xi)
                    /\ (k = stopAt.di /\ stopAt.pc \in {"csv", "csvTry"}
                          /\ visited[v][2] = "csv") => visited[v][3] <= stopAt.ci)
    /\ []((pc = "done" /\ Cancelled /\ Signals("error") = {}) =>
            /\ Completed
            /\ log[Len(log)].summary.total_files = Cardinality(Signals("result"))
            /\ log[Len(log)].summary.total_amount = EmittedAmount(Len(log)))

\* stop() was called while the first spreadsheet of a directory was in its
\* try body: its result was emitted, the other files of the directory and
\* the next directory were left alone, and the run has completed
C17_Witness ==
    /\ Completed
    /\ stopAt.called
    /\ stopAt.pc = "xlsxTry" /\ stopAt.di = 1 /\ stopAt.xi = 1
    /\ Len(directories) >= 2
    /\ Len(fs[directories[1]].xlsx) = 2
    /\ Len(fs[directories[1]].csv) = 1
    /\ visited = << <<directories[1], "xlsx", 1>> >>
    /\ Cardinality(Signals("result")) = 1
    /\ log[Len(log)].summary.total_files = 1

(***************************************************************************)
(* SpecWindow: MainWindow and the worker it starts                         *)
(*                                                                         *)
(* The window holds the directory list and hands that same list object to  *)
(* the worker (line 506 with line 65), so directories is one variable      *)
(* here.  A click or a drop reaches its handler only while the widget is   *)
(* enabled; the clear button is never disabled.  The signals of the worker *)
(* are queued to the window and their slots run in emission order.         *)
(* MainWindow never calls stop().                                          *)
(***************************************************************************)
MaxPaths == 2           \* the directories the user can drop
MaxDrop == 2            \* one drop brings at most this many of them

Paths == 1..MaxPaths

\* what the directories hold, by path
LayoutOrder ==
    <<[xlsx |-> <<FileC>>, csv |-> <<FileF, FileD>>],
      [xlsx |-> <<FileD>>, csv |-> <<>>],
      [xlsx |-> <<>>, csv |-> <<>>],
      [xlsx |-> <<FileA, FileB>>, csv |-> <<FileE>>]>>

WindowFs(k) == [p \in Paths |-> LayoutOrder[((p + k - 1) % Len(LayoutOrder)) + 1]]

\* the lists a drop can emit: never empty (lines 50-51)
Drops == UNION {[1..n -> Paths] : n \in 1..MaxDrop}

\* the names the user types in the header editor
EditNames == {ColB}

\* the worker is between start() and the slot of its final signal
RunActive == pc # "idle" /\ ~(pc = "done" /\ handled = Len(log))

\* as if line 412 were missing: every dropped path is appended
AddEachNoCheck(dirs, dropped) == dirs \o dropped

\* lines 411-413: each dropped path is appended unless it is in the list
RECURSIVE AddEach(_, _)
AddEach(dirs, dropped) ==
    IF dropped = <<>> THEN dirs
    ELSE AddEach(IF \E i \in 1..Len(dirs) : dirs[i] = Head(dropped)
                 THEN dirs ELSE Append(dirs, Head(dropped)),
                 Tail(dropped))

\* lines 452-455: the header row of the first file of a listing; read_csv
\* is called without an encoding, and so decodes utf-8 only
ProbeRead(file, kind) ==
    IF ~file.readable \/ (kind = "csv" /\ file.encoding # "utf-8")
    THEN [raised |-> TRUE, columns |-> <<>>]
    ELSE [raised |-> FALSE, columns |-> file.columns]

\* lines 444-448: the listings in the order the two loops take them
Listing(dirs, c) ==
    IF c % 2 = 1 THEN fs[dirs[(c + 1) \div 2]].xlsx ELSE fs[dirs[c \div 2]].csv

ListingKind(c) == IF c % 2 = 1 THEN "xlsx" ELSE "csv"

\* line 449 and the try of lines 450-464: the listing has a file and its
\* first file is read
ProbeHits(dirs) ==
    {c \in 1..(2 * Len(dirs)) :
        /\ Listing(dirs, c) # <<>>
        /\ ~ProbeRead(Listing(dirs, c)[1], ListingKind(c)).raised}

\* the file whose header row the scan reads: the first file of the first
\* listing that is hit
ProbeTarget(dirs) ==
    [found |-> TRUE,
     directory |-> dirs[(Min(ProbeHits(dirs)) + 1) \div 2],
     kind |-> ListingKind(Min(ProbeHits(dirs)))]

\* lines 457-461: the headers that are added to the combo box
ComboItems(columns) ==
    LET keep == {j \in 1..Len(columns) : Strip(columns[j]) \notin Markers}
        p == Positions(Len(columns), keep, 1)
    IN  [j \in 1..Len(p) |-> columns[p[j]]]

\* as if the combo box were emptied when no file can be read
ScanClearsWhenNothingRead(dirs, items, button) ==
    IF ProbeHits(dirs) = {}
    THEN [items |-> <<>>, header_edit_btn |-> button]
    ELSE [items |-> ComboItems(ProbeRead(Listing(dirs, Min(ProbeHits(dirs)))[1],
                                         ListingKind(Min(ProbeHits(dirs)))).columns),
          header_edit_btn |-> TRUE]

\* scan_first_file_headers (lines 443-467): the first listing whose first
\* file is read fills the combo box; a failing read goes on to the next
\* listing; when no read succeeds nothing is touched
ScanFirstFileHeaders(dirs, items, button) ==
    IF ProbeHits(dirs) = {}
    THEN [items |-> items, header_edit_btn |-> button]
    ELSE [items |-> ComboItems(ProbeRead(Listing(dirs, Min(ProbeHits(dirs)))[1],
                                         ListingKind(Min(ProbeHits(dirs)))).columns),
          header_edit_btn |-> TRUE]

\* update_controls (lines 434-441)
UpdateControls(dirs, items, button) ==
    IF Len(dirs) > 0
    THEN [analyze_btn |-> TRUE,
          items |-> ScanFirstFileHeaders(dirs, items, button).items,
          header_edit_btn |-> ScanFirstFileHeaders(dirs, items, button).header_edit_btn]
    ELSE [analyze_btn |-> FALSE, items |-> items, header_edit_btn |-> button]

workerState == <<is_running, pc, di, xi, ci, total_amount_all, total_files_all, log,
                 visited, stopAt, loop_directory>>
idleSpecs == <<cardVars, filterVars, loadVars>>

\* MainWindow.__init__ (lines 237-243) with no worker yet
WindowInit ==
    /\ directories = <<>>
    /\ fs \in {WindowFs(0), WindowFs(2)}
    /\ amount_column = <<>>
    /\ custom_headers = NoHeaders
    /\ is_running = TRUE
    /\ pc = "idle"
    /\ di = 0 /\ xi = 0 /\ ci = 0
    /\ total_amount_all = 0
    /\ total_files_all = 0
    /\ log = <<>>
    /\ visited = <<>>
    /\ stopAt = NotStopped
    /\ loop_directory = 0
    /\ WindowIdle /\ CardIdle /\ FilterIdle /\ LoadIdle

\* add_directories (lines 409-424), the slot of the drop widget
AddDirectories ==
    /\ drop_widget
    /\ \E dropped \in Drops :
         LET dirs == AddEach(directories, dropped)
             ctl == UpdateControls(dirs, amount_combo, header_edit_btn)
         IN  /\ directories' = dirs
             /\ analyze_btn' = ctl.analyze_btn
             /\ amount_combo' = ctl.items
             /\ header_edit_btn' = ctl.header_edit_btn
             /\ probed' = IF ProbeHits(dirs) = {} THEN probed
                           ELSE [probed EXCEPT !.combo = ProbeTarget(dirs)]
    /\ UNCHANGED <<fs, amount_column, custom_headers, workerState, all_results,
                   window_headers, drop_widget, export_btn, handled, started_with,
                   overlap, exported, idleSpecs>>

\* clear_directories (lines 426-432), the slot of the clear button
ClearDirectories ==
    /\ directories' = <<>>
    /\ LET ctl == UpdateControls(<<>>, amount_combo, header_edit_btn)
       IN  /\ analyze_btn' = ctl.analyze_btn
           /\ amount_combo' = ctl.items
           /\ header_edit_btn' = ctl.header_edit_btn
    /\ UNCHANGED <<fs, amount_column, custom_headers, workerState, all_results,
                   window_headers, drop_widget, export_btn, handled, started_with,
                   overlap, exported, probed, idleSpecs>>

\* what the header editor can return for the items it is given: one name
\* per item (lines 227-233), each left as it was or retyped
EditedHeaders(items) ==
    {names \in [1..Len(items) -> EditNames \cup {items[i] : i \in 1..Len(items)}] :
        \A i \in 1..Len(items) : names[i] \in EditNames \cup {items[i]}}

\* edit_headers (lines 469-482), the slot of the header-edit button; the
\* dialog is accepted or rejected
EditHeaders ==
    /\ header_edit_btn
    /\ \/ UNCHANGED <<window_headers, amount_combo, probed>>
       \/ \E names \in EditedHeaders(amount_combo) :
             /\ window_headers' = [none |-> FALSE, names |-> names]
             /\ amount_combo' = names
             /\ probed' = [probed EXCEPT !.override = probed.combo]
    /\ UNCHANGED <<inputs, workerState, all_results, analyze_btn, header_edit_btn,
                   drop_widget, export_btn, handled, started_with, overlap, exported,
                   idleSpecs>>

\* as if line 497 were missing: the results of the run before are kept
AnalyzeDataKeepsResults ==
    /\ analyze_btn
    /\ IF directories = <<>> \/ amount_combo = <<>>
       THEN /\ UNCHANGED <<inputs, workerState, analyze_btn, header_edit_btn,
                           drop_widget, export_btn, handled, started_with, overlap,
                           exported>>
       ELSE /\ \E text \in {amount_combo[i] : i \in 1..Len(amount_combo)} :
                 amount_column' = text
            /\ analyze_btn' = FALSE
            /\ header_edit_btn' = FALSE
            /\ drop_widget' = FALSE
            /\ export_btn' = FALSE
            /\ custom_headers' = window_headers
            /\ is_running' = TRUE
            /\ pc' = "ready"
            /\ di' = 0 /\ xi' = 0 /\ ci' = 0
            /\ total_amount_all' = 0
            /\ total_files_all' = 0
            /\ log' = <<>>
            /\ visited' = <<>>
            /\ stopAt' = NotStopped
            /\ loop_directory' = 0
            /\ handled' = 0
            /\ started_with' = directories
            /\ overlap' = (overlap \/ RunActive)
            /\ exported' = NotExported
            /\ UNCHANGED <<directories, fs>>
    /\ UNCHANGED <<all_results, window_headers, amount_combo, probed, idleSpecs>>

\* as if the start button were left enabled
AnalyzeDataKeepsButton ==
    /\ analyze_btn
    /\ directories # <<>>
    /\ amount_combo # <<>>
    /\ \E text \in {amount_combo[i] : i \in 1..Len(amount_combo)} :
          amount_column' = text
    /\ all_results' = <<>>
    /\ header_edit_btn' = FALSE
    /\ drop_widget' = FALSE
    /\ export_btn' = FALSE
    /\ custom_headers' = window_headers
    /\ is_running' = TRUE
    /\ pc' = "ready"
    /\ di' = 0 /\ xi' = 0 /\ ci' = 0
    /\ total_amount_all' = 0
    /\ total_files_all' = 0
    /\ log' = <<>>
    /\ visited' = <<>>
    /\ stopAt' = NotStopped
    /\ loop_directory' = 0
    /\ handled' = 0
    /\ started_with' = directories
    /\ overlap' = (overlap \/ RunActive)
    /\ exported' = NotExported
    /\ UNCHANGED <<directories, fs, analyze_btn, window_headers, amount_combo,
                   probed, idleSpecs>>

\* analyze_data (lines 484-512), the slot of the start button: the two
\* warnings, or a new worker over the window's own directory list, started
\* with the current text of the combo box and the window's override
AnalyzeData ==
    /\ analyze_btn
    /\ IF directories = <<>> \/ amount_combo = <<>>
       THEN /\ UNCHANGED <<inputs, workerState, all_results, analyze_btn,
                           header_edit_btn, drop_widget, export_btn, handled,
                           started_with, overlap, exported>>
       ELSE /\ \E text \in {amount_combo[i] : i \in 1..Len(amount_combo)} :
                 amount_column' = text
            /\ all_results' = <<>>
            /\ analyze_btn' = FALSE
            /\ header_edit_btn' = FALSE
            /\ drop_widget' = FALSE
            /\ export_btn' = FALSE
            /\ custom_headers' = window_headers
            /\ is_running' = TRUE
            /\ pc' = "ready"
            /\ di' = 0 /\ xi' = 0 /\ ci' = 0
            /\ total_amount_all' = 0
            /\ total_files_all' = 0
            /\ log' = <<>>
            /\ visited' = <<>>
            /\ stopAt' = NotStopped
            /\ loop_directory' = 0
            /\ handled' = 0
            /\ started_with' = directories
            /\ overlap' = (overlap \/ RunActive)
            /\ exported' = NotExported
            /\ UNCHANGED <<directories, fs>>
    /\ UNCHANGED <<window_headers, amount_combo, probed, idleSpecs>>

\* update_progress (lines 514-515), the slot of progress_updated
UpdateProgress ==
    /\ handled < Len(log)
    /\ log[handled + 1].sig = "progress"
    /\ handled' = handled + 1
    /\ UNCHANGED <<inputs, workerState, all_results, window_headers, amount_combo,
                   analyze_btn, header_edit_btn, drop_widget, export_btn, started_with,
                   overlap, exported, probed, idleSpecs>>

\* update_result_table (lines 517-526), the slot of file_result_ready
UpdateResultTable ==
    /\ handled < Len(log)
    /\ log[handled + 1].sig = "result"
    /\ all_results' = Append(all_results, log[handled + 1].result)
    /\ handled' = handled + 1
    /\ UNCHANGED <<inputs, workerState, window_headers, amount_combo, analyze_btn,
                   header_edit_btn, drop_widget, export_btn, started_with, overlap,
                   exported, probed, idleSpecs>>

\* as if the slot of the failure dropped the collected results
AnalysisErrorClearsResults ==
    /\ handled < Len(log)
    /\ log[handled + 1].sig = "error"
    /\ all_results' = <<>>
    /\ analyze_btn' = TRUE
    /\ header_edit_btn' = TRUE
    /\ drop_widget' = TRUE
    /\ export_btn' = TRUE
    /\ handled' = handled + 1
    /\ UNCHANGED <<inputs, workerState, window_headers, amount_combo,
                   started_with, overlap, exported, probed, idleSpecs>>

\* as if the slot of the failure left the export button disabled
AnalysisErrorNoExport ==
    /\ handled < Len(log)
    /\ log[handled + 1].sig = "error"
    /\ analyze_btn' = TRUE
    /\ header_edit_btn' = TRUE
    /\ drop_widget' = TRUE
    /\ handled' = handled + 1
    /\ UNCHANGED <<inputs, workerState, all_results, window_headers, amount_combo,
                   export_btn, started_with, overlap, exported, probed, idleSpecs>>

\* analysis_finished (lines 528-537), the slot of finished_analysis
AnalysisFinished ==
    /\ handled < Len(log)
    /\ log[handled + 1].sig = "finished"
    /\ analyze_btn' = TRUE
    /\ header_edit_btn' = TRUE
    /\ drop_widget' = TRUE
    /\ export_btn' = TRUE
    /\ handled' = handled + 1
    /\ UNCHANGED <<inputs, workerState, all_results, window_headers, amount_combo,
                   started_with, overlap, exported, probed, idleSpecs>>

\* analysis_error (lines 539-547), the slot of error_occurred
AnalysisError ==
    /\ handled < Len(log)
    /\ log[handled + 1].sig = "error"
    /\ analyze_btn' = TRUE
    /\ header_edit_btn' = TRUE
    /\ drop_widget' = TRUE
    /\ export_btn' = TRUE
    /\ handled' = handled + 1
    /\ UNCHANGED <<inputs, workerState, all_results, window_headers, amount_combo,
                   started_with, overlap, exported, probed, idleSpecs>>

\* the four header texts of the exported sheet (lines 560-563)
MuLu == "MuLu"
WenJianMing == "WenJianMing"
YueJieKaHao == "YueJieKaHao"
JinE == "JinE"

\* pd.DataFrame(self.all_results), line 557: the keys of the dicts, in the
\* order lines 125-130 insert them, are the columns
ResultsFrame(results) ==
    [columns |-> <<"directory", "filename", "monthly_card", "amount">>,
     data |-> [r \in 1..Len(results) |->
                 <<results[r].directory, results[r].filename,
                   results[r].monthly_card, results[r].amount>>]]

\* df.rename(columns=...), lines 559-564
RenameColumns(df) ==
    [df EXCEPT !.columns =
        [j \in 1..Len(df.columns) |->
            CASE df.columns[j] = "directory" -> MuLu
              [] df.columns[j] = "filename" -> WenJianMing
              [] df.columns[j] = "monthly_card" -> YueJieKaHao
              [] df.columns[j] = "amount" -> JinE
              [] OTHER -> df.columns[j]]]

\* df[labels]: the columns with these labels, in the order of the labels
SelectColumns(df, labels) ==
    LET at(l) == CHOOSE j \in 1..Len(df.columns) : df.columns[j] = l
    IN  [columns |-> labels,
         data |-> [r \in 1..Len(df.data) |->
                     [j \in 1..Len(labels) |-> df.data[r][at(labels[j])]]]]

\* as if line 567 put the amount before the identifier
ExportFrameAmountThird(results) ==
    SelectColumns(RenameColumns(ResultsFrame(results)),
                  <<MuLu, WenJianMing, JinE, YueJieKaHao>>)

\* lines 557-567: the frame handed to to_excel
ExportFrame(results) ==
    SelectColumns(RenameColumns(ResultsFrame(results)),
                  <<MuLu, WenJianMing, YueJieKaHao, JinE>>)

\* export_data (lines 549-572), the slot of the export button: the warning
\* when nothing was collected; else the file dialog, which the user may
\* cancel, and to_excel, which may raise
ExportData ==
    /\ export_btn
    /\ IF all_results = <<>>
       THEN exported' = [NotExported EXCEPT !.warned = TRUE]
       ELSE \E outcome \in {"cancelled", "raised", "written"} :
               exported' = IF outcome = "written"
                           THEN [warned |-> FALSE, asked |-> TRUE, written |-> TRUE,
                                 columns |-> ExportFrame(all_results).columns,
                                 data |-> ExportFrame(all_results).data]
                           ELSE [NotExported EXCEPT !.asked = TRUE]
    /\ UNCHANGED <<inputs, workerState, all_results, window_headers, amount_combo,
                   analyze_btn, header_edit_btn, drop_widget, export_btn, handled,
                   started_with, overlap, probed, idleSpecs>>

WindowNext ==
    \/ AddDirectories
    \/ ClearDirectories
    \/ EditHeaders
    \/ AnalyzeData
    \/ UpdateProgress
    \/ UpdateResultTable
    \/ AnalysisFinished
    \/ AnalysisError
    \/ ExportData
    \/ Begin
    \/ NextDirectory
    \/ NextExcel
    \/ ExcelFile
    \/ NextCsv
    \/ CsvFile
    \/ ListingFails
    \/ EmitSummary

SpecWindow == WindowInit /\ [][WindowNext]_vars

\* C12: while a run is active the directory list the worker iterates is the
\* list it was started with, and no step of the window changes the override
\* or the column the worker holds
C12_InputsFrozen ==
    /\ [](RunActive => directories = started_with)
    /\ [][RunActive => /\ custom_headers' = custom_headers
                       /\ amount_column' = amount_column]_vars

\* the list was cleared under a worker that had taken one directory of two,
\* and the run completed without a progress signal for the second
C12_Truncated ==
    /\ Completed
    /\ Len(started_with) = 2
    /\ directories = <<>>
    /\ Cardinality(Signals("progress")) = 1

\* the set of the elements of a sequence
Range(seq) == {seq[i] : i \in 1..Len(seq)}

\* t holds the paths of dropped that are not in dirs, once each, in the
\* order of their first place in dropped
IsFirstInsertions(t, dirs, dropped) ==
    /\ Range(t) = Range(dropped) \ Range(dirs)
    /\ \A i, j \in 1..Len(t) : i < j =>
          /\ t[i] # t[j]
          /\ Min({k \in 1..Len(dropped) : dropped[k] = t[i]})
               < Min({k \in 1..Len(dropped) : dropped[k] = t[j]})

\* C15: the directory list never holds a path twice; a step that leaves it
\* non-empty keeps the paths it had, in their order, and puts the new paths
\* of one drop behind them in the order of their first insertion; the only
\* other change is the clearing of the whole list
C15_NoDuplicates ==
    /\ [](\A i, j \in 1..Len(directories) : i # j => directories[i] # directories[j])
    /\ [][directories' # directories =>
            \/ directories' = <<>>
            \/ \E dropped \in Drops :
                  /\ Len(directories') >= Len(directories)
                  /\ SubSeq(directories', 1, Len(directories)) = directories
                  /\ IsFirstInsertions(SubSeq(directories', Len(directories) + 1,
                                              Len(directories')),
                                       directories, dropped)]_vars

\* path 2 was dropped before path 1 and both are in the list once, after a
\* run has ended
C15_Witness ==
    /\ directories = <<2, 1>>
    /\ pc = "done"
    /\ ~RunActive

\* C13: export_data asks for a destination only when results were
\* collected, and with none it only warns; what it writes has the columns
\* directory, file name, identifier, amount in that order and one row per
\* collected result, in collection order, with the fields of that result
C13_Export ==
    /\ exported.asked => (all_results # <<>> /\ ~exported.warned)
    /\ exported.warned => (all_results = <<>> /\ ~exported.asked /\ ~exported.written)
    /\ exported.written =>
          /\ exported.asked
          /\ exported.columns = <<MuLu, WenJianMing, YueJieKaHao, JinE>>
          /\ Len(exported.data) = Len(all_results)
          /\ \A r \in 1..Len(all_results) :
                exported.data[r] = <<all_results[r].directory, all_results[r].filename,
                                     all_results[r].monthly_card, all_results[r].amount>>

\* two results of two directories were written, in collection order
C13_Witness ==
    /\ exported.written
    /\ Len(all_results) = 2
    /\ all_results[1].directory # all_results[2].directory
    /\ exported.data[1][1] = all_results[1].directory
    /\ exported.data[2][1] = all_results[2].directory

\* an export with nothing collected was turned away with the warning
C13_WitnessEmpty ==
    /\ exported.warned
    /\ all_results = <<>>
    /\ export_btn

\* the listings of dirs that hold a file
Matching(dirs) == {c \in 1..(2 * Len(dirs)) : Listing(dirs, c) # <<>>}

\* the first file of the listing can have its header row read
HeaderReadable(dirs, c) ==
    /\ Listing(dirs, c)[1].readable
    /\ ListingKind(c) = "csv" => Listing(dirs, c)[1].encoding = "utf-8"

\* items are the names of columns that do not trim to a marker, in order
IsOfferOf(items, columns) ==
    \E at \in [1..Len(items) -> 1..Len(columns)] :
        /\ \A i, j \in 1..Len(items) : i < j => at[i] < at[j]
        /\ {at[i] : i \in 1..Len(items)} =
              {j \in 1..Len(columns) :
                  Strip(columns[j]) # <<He, Ji>> /\ Strip(columns[j]) # <<He, Sp, Ji>>}
        /\ \A i \in 1..Len(items) : items[i] = columns[at[i]]

\* C14 as stated: when directories are added, the names offered come from
\* the first directory of the list that holds a matching file, its
\* spreadsheets before its delimited-text files, and nothing is offered
\* when no file can be read
C14_FirstMatchingDirectory ==
    [][(directories' # directories /\ directories' # <<>>) =>
          IF \E c \in Matching(directories') : HeaderReadable(directories', c)
          THEN \E c \in Matching(directories') :
                  /\ HeaderReadable(directories', c)
                  /\ (c + 1) \div 2 = (Min(Matching(directories')) + 1) \div 2
                  /\ IsOfferOf(amount_combo', Listing(directories', c)[1].columns)
          ELSE amount_combo' = <<>>]_vars

\* C14 amended: when directories are added, the listings are taken directory
\* by directory in list order, *.xlsx before *.csv; only the first file of a
\* listing is tried; the first listing whose first file is read gives the
\* names offered, in header order without the names that trim to a marker,
\* and enables the header editor; a failing read moves on to the next
\* listing; when no first file can be read the names offered before and the
\* header-edit button are left as they were
C14_FirstReadableFile ==
    [][(directories' # directories /\ directories' # <<>>) =>
          IF \E c \in Matching(directories') : HeaderReadable(directories', c)
          THEN \E c \in Matching(directories') :
                  /\ HeaderReadable(directories', c)
                  /\ \A b \in Matching(directories') :
                        b < c => ~HeaderReadable(directories', b)
                  /\ IsOfferOf(amount_combo', Listing(directories', c)[1].columns)
                  /\ header_edit_btn'
          ELSE /\ amount_combo' = amount_combo
               /\ header_edit_btn' = header_edit_btn]_vars

\* the first directory holds files that cannot be read; the names offered
\* are those of the spreadsheet of the second, without its total column
C14_Witness ==
    /\ directories = <<1, 2>>
    /\ Matching(directories) # {}
    /\ Min(Matching(directories)) = 1
    /\ ~HeaderReadable(directories, 1)
    /\ ~HeaderReadable(directories, 2)
    /\ HeaderReadable(directories, 3)
    /\ Len(Listing(directories, 3)[1].columns) = 3
    /\ amount_combo = <<ColN, ColA>>
    /\ header_edit_btn
    /\ pc = "idle"

\* the results among the first k signals of the worker, in emission order
RECURSIVE ResultsAmong(_)
ResultsAmong(k) ==
    IF k = 0 THEN <<>>
    ELSE IF log[k].sig = "result" THEN Append(ResultsAmong(k - 1), log[k].result)
    ELSE ResultsAmong(k - 1)

\* C18: a run in which an exception left the per-file try has the error
\* signal as its last signal and no finished signal, so no summary at all;
\* the results collected by the window are the results emitted before it,
\* in order, before and after the slot of the failure has run
C18_RunFailure ==
    Signals("error") # {} =>
        /\ pc = "done"
        /\ Signals("finished") = {}
        /\ Signals("error") = {Len(log)}
        /\ all_results = ResultsAmong(handled)
        /\ handled = Len(log) => all_results = ResultsAmong(Len(log))

\* a run failed after a result had been emitted; the slot of the failure
\* has run and the result is still collected
C18_Witness ==
    /\ Signals("error") # {}
    /\ handled = Len(log)
    /\ Signals("result") # {}
    /\ Len(all_results) = Cardinality(Signals("result"))
    /\ export_btn

\* C19: while a run is active the start button is disabled, whatever the
\* user does, and no worker is ever started while another is active
C19_RunsSerialized ==
    /\ RunActive => ~analyze_btn
    /\ ~overlap

\* the list was cleared under an active worker and the start button is
\* still disabled
C19_Witness ==
    /\ RunActive
    /\ pc \in {"xlsx", "xlsxTry", "csv", "csvTry"}
    /\ started_with # <<>>
    /\ directories = <<>>
    /\ ~analyze_btn

\* a step of run()
WorkerStep ==
    \/ Begin
    \/ NextDirectory
    \/ NextExcel
    \/ ExcelFile
    \/ NextCsv
    \/ CsvFile
    \/ ListingFails
    \/ EmitSummary

\* a slot of the window runs for the next queued signal
SlotStep ==
    \/ UpdateProgress
    \/ UpdateResultTable
    \/ AnalysisFinished
    \/ AnalysisError

\* the steps a directory costs run(): the step that takes it from the list,
\* two per file, and the step that ends each of its two loops
DirectorySteps(d) == 1 + (2 * Len(fs[d].xlsx) + 1) + (2 * Len(fs[d].csv) + 1)

\* the steps of the directories after the first k of the list
RECURSIVE StepsAfter(_)
StepsAfter(k) ==
    IF k >= Len(directories) THEN 0
    ELSE DirectorySteps(directories[k + 1]) + StepsAfter(k + 1)

\* a bound on the steps run() still takes before it has emitted its final
\* signal
WorkerStepsLeft ==
    CASE pc = "done" -> 0
      [] pc = "summary" -> 1
      [] pc = "dir" -> 2 + StepsAfter(di)
      [] pc = "ready" -> 3 + StepsAfter(0)
      [] pc = "csv" -> 2 * (Len(fs[loop_directory].csv) - ci) + 3 + StepsAfter(di)
      [] pc = "csvTry" -> 2 * (Len(fs[loop_directory].csv) - ci) + 4 + StepsAfter(di)
      [] pc = "xlsx" -> 2 * (Len(fs[loop_directory].xlsx) - xi)
                        + 2 * Len(fs[loop_directory].csv) + 4 + StepsAfter(di)
      [] pc = "xlsxTry" -> 2 * (Len(fs[loop_directory].xlsx) - xi)
                           + 2 * Len(fs[loop_directory].csv) + 5 + StepsAfter(di)
      [] OTHER -> 0

\* a bound on the steps of the worker and of the slots until the final
\* signal has been handled: a step of run() queues at most one signal
StepsLeft == 2 * WorkerStepsLeft + (Len(log) - handled)

\* the guard of a step of run() or of a slot holds
WindowCanStep ==
    \/ handled < Len(log)
    \/ pc \in {"ready", "dir", "summary"}
    \/ pc \in {"xlsx", "csv"} /\ loop_directory \in DOMAIN fs
    \/ pc = "xlsxTry" /\ loop_directory \in DOMAIN fs
                      /\ xi \in 1..Len(fs[loop_directory].xlsx)
    \/ pc = "csvTry" /\ loop_directory \in DOMAIN fs
                     /\ ci \in 1..Len(fs[loop_directory].csv)

\* C20: while a run is active the start, header-edit, drop and export
\* controls are all disabled; the slot of the finished signal and the slot
\* of the error signal both leave all four enabled; and every run reaches
\* that slot: while it is active a step of run() or a slot can always be
\* taken, each such step brings the handling of the final signal nearer,
\* and nothing the user does moves it away
C20_ControlsRestored ==
    /\ [](RunActive =>
            /\ ~analyze_btn /\ ~header_edit_btn /\ ~drop_widget /\ ~export_btn
            /\ WindowCanStep
            /\ StepsLeft > 0)
    /\ [][(handled' = handled + 1 /\ log[handled + 1].sig \in {"finished", "error"}) =>
            /\ analyze_btn' /\ header_edit_btn' /\ drop_widget' /\ export_btn'
            /\ ~RunActive']_vars
    /\ [][RunActive =>
            /\ StepsLeft' <= StepsLeft
            /\ (WorkerStep \/ SlotStep) => StepsLeft' < StepsLeft]_vars

\* a failed run has ended and the four controls are enabled
C20_Witness ==
    /\ pc = "done"
    /\ handled = Len(log)
    /\ Signals("error") # {}
    /\ analyze_btn /\ header_edit_btn /\ drop_widget /\ export_btn

\* the final signal of the worker has been handled and it was finished
CompletionHandled ==
    /\ pc = "done"
    /\ handled = Len(log)
    /\ log # <<>>
    /\ log[Len(log)].sig = "finished"

\* C21: from the start of a worker on, the results collected by the window
\* are the results that worker has emitted and whose slot has run, in
\* emission order, so none of an earlier run is among them; once the
\* finished signal has been handled they are all the results of the run and
\* as many as the summary counts; and while a run is active the export
\* button is disabled and nothing has been exported from its results
C21_CollectedResults ==
    /\ pc # "idle" => all_results = ResultsAmong(handled)
    /\ CompletionHandled =>
          /\ all_results = ResultsAmong(Len(log))
          /\ Len(all_results) = log[Len(log)].summary.total_files
          /\ Len(all_results) = Cardinality(Signals("result"))
    /\ RunActive => (~export_btn /\ exported = NotExported)

\* a run over two directories has completed and been handled with a result
\* from each, and they have been exported
C21_Witness ==
    /\ CompletionHandled
    /\ Len(all_results) = 2
    /\ log[Len(log)].summary.total_files = 2
    /\ all_results[1].directory # all_results[2].directory
    /\ exported.written

\* a run is active with one of its results collected so far and a
\* second one still queued
C21_WitnessPartial ==
    /\ RunActive
    /\ Len(all_results) = 1
    /\ Cardinality(Signals("result")) = 2
    /\ ~export_btn

\* the file a probe read
ProbedFile(probe) ==
    IF probe.kind = "xlsx" THEN fs[probe.directory].xlsx[1] ELSE fs[probe.directory].csv[1]

\* run() is in the try body of the file the override was edited from
LoadingOverrideSource ==
    /\ probed.override.found
    /\ loop_directory = probed.override.directory
    /\ \/ pc = "xlsxTry" /\ probed.override.kind = "xlsx" /\ xi = 1
       \/ pc = "csvTry" /\ probed.override.kind = "csv" /\ ci = 1

\* C22: an override that the header editor made from the names probed from
\* a file is as long as the header row of that file, and when a worker that
\* was given it loads that file, the column names of the loaded table are
\* the edited names
C22_OverrideTakesEffect ==
    /\ probed.override.found =>
          Len(window_headers.names) = Len(ProbedFile(probed.override).columns)
    /\ (LoadingOverrideSource /\ ~custom_headers.none) =>
          LET read == IF pc = "xlsxTry" THEN ReadExcel(ProbedFile(probed.override))
                      ELSE ReadCsv(ProbedFile(probed.override))
          IN  ~read.raised =>
                 SetHeaders(read.df, custom_headers).columns = custom_headers.names

\* the names probed from a spreadsheet with a total column were edited, the
\* edited name was chosen as the column, and the run has completed without
\* a result for that spreadsheet: its headers were not replaced
C22_OverrideIgnored ==
    /\ CompletionHandled
    /\ probed.override.found
    /\ started_with = <<probed.override.directory>>
    /\ Len(ProbedFile(probed.override).columns) = 3
    /\ custom_headers = [none |-> FALSE, names |-> <<ColN, ColB>>]
    /\ amount_column = ColB
    /\ visited # <<>>
    /\ all_results = <<>>

\* the names probed from a spreadsheet without a total column were edited
\* and the run has completed with a result under the edited name
C22_OverrideApplied ==
    /\ CompletionHandled
    /\ probed.override.found
    /\ Len(ProbedFile(probed.override).columns) = 2
    /\ custom_headers = [none |-> FALSE, names |-> <<ColN, ColB>>]
    /\ amount_column = ColB
    /\ all_results # <<>>

====
